---- MODULE Spec2Model ----
(***************************************************************************)
(* Model of the Movistore front end: the read-through localStorage cache   *)
(* and the three AI content fetches of services/geminiService.ts, the chat *)
(* call, and the App component's handlers that call them.                  *)
(*                                                                         *)
(* Strings are sequences of characters.  A JavaScript value is a record    *)
(* [type, items]; a text (a backend response text, a localStorage item)    *)
(* is a record [kind, value]: the JSON encoding of a value, the empty      *)
(* text, or text that is not JSON.                                         *)
(*                                                                         *)
(* An async function runs up to its first pending await in the step that   *)
(* calls it; the continuation after the backend's answer runs, with the    *)
(* caller's continuation behind it, in the step that delivers the answer.  *)
(* The code runs in the browser only (App registers a window listener at   *)
(* mount), so typeof window is never 'undefined' here.                     *)
(***************************************************************************)
EXTENDS Integers, Sequences, FiniteSets, TLC

\* ------------------------------------------------------------------ bounds
MaxOps == 2
MaxTicks == 1
MaxMovieId == 2
MaxQueryLen == 3

\* ------------------------------------------------------- program constants
CACHE_TTL == 3600000
CACHE_PREFIX == "movistore_cache_v1_"
APOLOGY == <<"I'm having trouble connecting to the server. Try again later.">>
GREETING == <<"Hi! I am the MOVISTORE AI. Ask me for recommendations or tell me your mood!">>

VARIABLES
  apiKey,            \* process.env.API_KEY is set
  now,               \* Date.now()
  ticks,             \* how often the clock has advanced
  storage,           \* localStorage: storage key -> item text
  pending,           \* backend calls awaiting their answer
  ops,               \* handler invocations so far
  mounted,           \* App's mount effect has run
  currentCategory, categoryContent, featuredMovie,
  searchResults, isSearching, isLoadingContent,
  chatMessages, isThinking,
  writer,            \* history: the raw query of the search that wrote a cache key
  last,              \* history: the operation that made the latest step
  view,              \* the component on show: a MovieCard, the Hero or a history row
  favorites          \* My List

vars == <<apiKey, now, ticks, storage, pending, ops, mounted, currentCategory,
          categoryContent, featuredMovie, searchResults, isSearching,
          isLoadingContent, chatMessages, isThinking, writer, last, view,
          favorites>>

\* ------------------------------------------------------- JavaScript values
Null == [type |-> "null", items |-> <<>>]
Obj == [type |-> "object", items |-> <<>>]
Arr(s) == [type |-> "array", items |-> s]
EmptyList == Arr(<<>>)

\* if (cached): null is falsy; every array (the empty one too) and object is truthy
Truthy(v) == v.type \in {"array", "object"}

IsList(v) == v.type = "array"

Movie(i) == [id |-> i]

\* the arrays a backend answer may hold
RECURSIVE MoviesDownFrom(_)
MoviesDownFrom(i) ==
  IF i = 0 THEN <<>> ELSE <<Movie(i)>> \o MoviesDownFrom(i - 1)

Payloads == {MoviesDownFrom(i) : i \in 0..MaxMovieId}

\* ------------------------------------------------------------------- texts
EmptyText == [kind |-> "empty", value |-> Null]
GarbageText == [kind |-> "garbage", value |-> Null]
JSONstringify(v) == [kind |-> "json", value |-> v]

\* JSON.parse throws on text that is not JSON
JSONparseThrows(t) == t.kind # "json"
JSONparse(t) == t.value

\* response.text || "[]"
TextOrDefault(t) == IF t.kind = "empty" THEN JSONstringify(EmptyList) ELSE t

ResponseTexts ==
  {EmptyText, GarbageText, JSONstringify(Null)}
    \cup {JSONstringify(Arr(p)) : p \in Payloads}

\* what the backend call does: it rejects, or resolves with a response text
Outcomes ==
  {[err |-> TRUE, text |-> EmptyText]} \cup {[err |-> FALSE, text |-> t] : t \in ResponseTexts}

\* ----------------------------------------------------------------- strings
Alphabet == {"S", "s", " "}

RECURSIVE StringsOfLen(_)
StringsOfLen(n) ==
  IF n = 0 THEN {<<>>}
  ELSE {Append(s, c) : s \in StringsOfLen(n - 1), c \in Alphabet}

Queries == UNION {StringsOfLen(n) : n \in 0..MaxQueryLen}

LowerChar(c) == IF c = "S" THEN "s" ELSE c

\* String.prototype.toLowerCase
toLowerCase(s) == [i \in 1..Len(s) |-> LowerChar(s[i])]

RECURSIVE TrimStart(_)
TrimStart(s) ==
  IF s # <<>> /\ Head(s) = " " THEN TrimStart(Tail(s)) ELSE s

RECURSIVE TrimEnd(_)
TrimEnd(s) ==
  IF s # <<>> /\ s[Len(s)] = " " THEN TrimEnd(SubSeq(s, 1, Len(s) - 1)) ELSE s

\* String.prototype.trim
trim(s) == TrimEnd(TrimStart(s))

\* -------------------------------------------------------------- cache keys
TrendingKey == <<"trending_movies">>
CategoryKey(category) == <<"category_", category>>
SearchKey(query) == <<"search_", trim(toLowerCase(query))>>

\* a key used as it is
StorageKey_Bare(key) == key

\* CACHE_PREFIX + key
StorageKey(key) == <<CACHE_PREFIX>> \o key

Categories == {"home", "tv", "movies", "new", "web"}

\* the navigation entries the user clicks in this model
NavCategories == {"home", "tv", "movies"}

\* the queries the user submits in this model (one is blank)
SearchInputs == {<<"S">>, <<"s", " ">>, <<"s", "s">>, <<" ">>}

\* the key handleCategoryChange's fetch uses
KeyOfCategory(category) ==
  IF category = "home" THEN TrendingKey ELSE CategoryKey(category)

\* ---------------------------------------------------------------- prompts
TrendingPrompt == <<"Generate a list of 10 currently trending or highly rated movies">>
SearchPrompt(query) == <<"User Query: ">> \o query

\* a switch without the 'web' case
CategoryPrompt_NoWeb(category) ==
  IF category = "tv"
  THEN <<"Generate a list of 10 trending TV Shows and Series from the last 3 years.">>
  ELSE IF category = "movies"
  THEN <<"Generate a list of 10 highly acclaimed Movies from various genres">>
  ELSE IF category = "new"
  THEN <<"Generate a list of 10 New & Popular releases">>
  ELSE <<"Generate a list of 10 trending movies.">>

\* the switch of fetchCategoryContent
CategoryPrompt(category) ==
  IF category = "tv"
  THEN <<"Generate a list of 10 trending TV Shows and Series from the last 3 years.">>
  ELSE IF category = "movies"
  THEN <<"Generate a list of 10 highly acclaimed Movies from various genres">>
  ELSE IF category = "new"
  THEN <<"Generate a list of 10 New & Popular releases">>
  ELSE IF category = "web"
  THEN <<"Generate a list of 10 popular Web Series">>
  ELSE <<"Generate a list of 10 trending movies.">>

\* the instruction a fetch sends for its key
PromptOf(key, category, query) ==
  IF key = TrendingKey THEN TrendingPrompt
  ELSE IF key[1] = "category_" THEN CategoryPrompt(category)
  ELSE SearchPrompt(query)

\* ------------------------------------------------------------ cache layer
Expired(timestamp, t) == t - timestamp > CACHE_TTL

HasItem(st, key) == StorageKey(key) \in DOMAIN st

RemoveItem(st, key) == [k \in DOMAIN st \ {StorageKey(key)} |-> st[k]]

SetItem(st, key, text) ==
  [k \in DOMAIN st \cup {StorageKey(key)} |->
     IF k = StorageKey(key) THEN text ELSE st[k]]

\* const { data, timestamp } = JSON.parse(item) finds both fields
IsEnvelope(v) == {"data", "timestamp"} \subseteq DOMAIN v

\* An item getCachedData cannot read as an envelope: JSON.parse throws on it,
\* the destructuring throws on it (null), or it has no timestamp to compare
\* (NaN > CACHE_TTL is false) and no data to return (undefined).  The empty
\* item stops at if (!item).  Each returns a falsy value and removes nothing.
Unreadable(text) ==
  JSONparseThrows(text) \/ ~IsEnvelope(JSONparse(text))

\* getCachedData without its expiry check
getCachedData_NoExpiry(st, key, t) ==
  IF ~HasItem(st, key) THEN [value |-> Null, st |-> st]
  ELSE IF Unreadable(st[StorageKey(key)]) THEN [value |-> Null, st |-> st]
  ELSE [value |-> JSONparse(st[StorageKey(key)]).data, st |-> st]

\* getCachedData: the value returned and the storage it leaves
getCachedData(st, key, t) ==
  IF ~HasItem(st, key) THEN [value |-> Null, st |-> st]
  ELSE IF Unreadable(st[StorageKey(key)]) THEN [value |-> Null, st |-> st]
  ELSE LET env == JSONparse(st[StorageKey(key)]) IN
       IF Expired(env.timestamp, t)
       THEN [value |-> Null, st |-> RemoveItem(st, key)]
       ELSE [value |-> env.data, st |-> st]

\* a write stamped with the start of the epoch
setCachedData_Epoch(st, key, data, t, writeOk) ==
  IF writeOk
  THEN SetItem(st, key, JSONstringify([data |-> data, timestamp |-> 0]))
  ELSE st

\* setCachedData: the storage after the write; setItem may throw (quota),
\* which is caught and leaves the storage as it was
setCachedData(st, key, data, t, writeOk) ==
  IF writeOk
  THEN SetItem(st, key, JSONstringify([data |-> data, timestamp |-> t]))
  ELSE st

\* getAI throws when the key is missing
getAIThrows(key) == ~key


\* a catch block that rethrows
onFetchError_Rethrow == [raised |-> TRUE, ret |-> Null]

\* the catch block of the three fetches: console.error, return []
onFetchError == [raised |-> FALSE, ret |-> EmptyList]

\* A fetch up to its await: the cache lookup, then on a miss the client
\* construction and the backend call.  done: it returned without awaiting.
fetchStart(st, key, t, hasKey) ==
  LET cached == getCachedData(st, key, t) IN
  IF Truthy(cached.value)
  THEN [done |-> TRUE, raised |-> FALSE, ret |-> cached.value, st |-> cached.st,
        hit |-> TRUE, invoked |-> FALSE]
  ELSE IF getAIThrows(hasKey)
  THEN [done |-> TRUE, raised |-> onFetchError.raised, ret |-> onFetchError.ret,
        st |-> cached.st, hit |-> FALSE, invoked |-> FALSE]
  ELSE [done |-> FALSE, raised |-> FALSE, ret |-> Null, st |-> cached.st,
        hit |-> FALSE, invoked |-> TRUE]

\* A fetch after its await: parse the answer, store it, return it.
fetchResume(st, key, outcome, t, writeOk) ==
  IF outcome.err \/ JSONparseThrows(TextOrDefault(outcome.text))
  THEN [raised |-> onFetchError.raised, ret |-> onFetchError.ret, st |-> st,
        wrote |-> FALSE]
  ELSE LET data == JSONparse(TextOrDefault(outcome.text)) IN
       [raised |-> FALSE, ret |-> data,
        st |-> setCachedData(st, key, data, t, writeOk), wrote |-> writeOk]

fetchTrendingMoviesAI(st, t, hasKey) == fetchStart(st, TrendingKey, t, hasKey)
fetchCategoryContent(st, category, t, hasKey) ==
  fetchStart(st, CategoryKey(category), t, hasKey)
searchMoviesAI(st, query, t, hasKey) == fetchStart(st, SearchKey(query), t, hasKey)

\* ------------------------------------------------------------------- chat
NoText == <<"undefined">>
ChatInputs == {<<"h", "i">>, <<" ">>}
ChatReplies == {<<"o", "k">>, NoText}
ChatOutcomes ==
  {[err |-> TRUE, text |-> NoText]} \cup {[err |-> FALSE, text |-> t] : t \in ChatReplies}

\* a catch block that rethrows
onChatError_Rethrow == [raised |-> TRUE, reply |-> NoText]

\* the catch block of chatWithMovieBot
onChatError == [raised |-> FALSE, reply |-> APOLOGY]

\* a history that labels every turn as the user's
HistoryOf_OneRole(messages) ==
  [i \in 1..Len(messages) |->
     [role |-> "user", parts |-> <<[text |-> messages[i].text]>>]]

\* history = chatMessages.map(m => ({ role: m.role, parts: [{ text: m.text }] }))
HistoryOf(messages) ==
  [i \in 1..Len(messages) |->
     [role |-> messages[i].role, parts |-> <<[text |-> messages[i].text]>>]]

\* a chat call that answers a repeated message from memory
chatStart_Memoized(hasKey) ==
  IF getAIThrows(hasKey) \/ Len(chatMessages) > 1
  THEN [done |-> TRUE, raised |-> onChatError.raised, reply |-> onChatError.reply,
        invoked |-> FALSE]
  ELSE [done |-> FALSE, raised |-> FALSE, reply |-> NoText, invoked |-> TRUE]

\* chatWithMovieBot up to its await
chatStart(hasKey) ==
  IF getAIThrows(hasKey)
  THEN [done |-> TRUE, raised |-> onChatError.raised, reply |-> onChatError.reply,
        invoked |-> FALSE]
  ELSE [done |-> FALSE, raised |-> FALSE, reply |-> NoText, invoked |-> TRUE]

\* chatWithMovieBot after its await
chatResume(outcome) ==
  IF outcome.err
  THEN [raised |-> onChatError.raised, reply |-> onChatError.reply]
  ELSE [raised |-> FALSE, reply |-> outcome.text]

\* --------------------------------------------------------------- My List
\* the items a card hands to toggleFavorite: lists of different fetches may
\* give one id to items that differ
FavoriteMovies == [id : 1..MaxMovieId, title : {"a", "b"}]

NoFavorite == [id |-> 0, title |-> ""]

\* prev.some(m => m.id === movie.id)
HasId(prev, id) == \E i \in 1..Len(prev) : prev[i].id = id

\* prev.filter(m => m.id !== movie.id)
WithoutId(prev, id) == SelectSeq(prev, LAMBDA m : m.id # id)

\* a toggle that puts a new item first
toggleFavorite_Prepend(prev, movie) ==
  IF HasId(prev, movie.id) THEN WithoutId(prev, movie.id)
  ELSE <<movie>> \o prev

\* the updater toggleFavorite hands to setFavorites
toggleFavorite(prev, movie) ==
  IF HasId(prev, movie.id) THEN WithoutId(prev, movie.id)
  ELSE prev \o <<movie>>

\* --------------------------------------------------------- history records
NoOutcome == [err |-> FALSE, text |-> EmptyText]

NoEvent ==
  [op |-> "none", caller |-> "none", key |-> <<>>, query |-> <<>>,
   had |-> FALSE, age |-> 0, stored |-> Null, priorTs |-> -1,
   hit |-> FALSE, invoked |-> FALSE, done |-> FALSE, raised |-> FALSE,
   ret |-> Null, reply |-> NoText, outcome |-> NoOutcome,
   wrote |-> FALSE, history |-> <<>>, message |-> <<>>, category |-> "home",
   stale |-> FALSE, corrupt |-> FALSE, prompt |-> <<>>, issued |-> -1,
   movie |-> NoFavorite, before |-> <<>>]

\* what the storage held for a key when an operation began
HadEntry(st, key) == HasItem(st, key) /\ ~Unreadable(st[StorageKey(key)])
EntryOf(st, key) == st[StorageKey(key)].value

NoRequest ==
  [id |-> -1, caller |-> "none", key |-> <<>>, category |-> "home", query |-> <<>>,
   priorTs |-> -1, stale |-> FALSE, history |-> <<>>, message |-> <<>>,
   prompt |-> <<>>, issued |-> -1]

NoMovie == [id |-> 0]


\* ------------------------------------------------------------- UI handlers
\* a tail that empties the page when the answer is empty
contentAfter_ClearOnEmpty(category, r, content, featured, loading) ==
  IF r.raised \/ r.ret.type = "null"
  THEN [categoryContent |-> content, featuredMovie |-> featured,
        isLoadingContent |-> loading]
  ELSE IF r.ret.type = "array" /\ Len(r.ret.items) > 0
  THEN [categoryContent |-> r.ret.items, featuredMovie |-> r.ret.items[1],
        isLoadingContent |-> FALSE]
  ELSE [categoryContent |-> <<>>, featuredMovie |-> NoMovie,
        isLoadingContent |-> FALSE]

\* a tail that drops the answer of a category that is no longer the current one
contentAfter_Fenced(category, r, content, featured, loading) ==
  IF r.raised \/ r.ret.type = "null"
  THEN [categoryContent |-> content, featuredMovie |-> featured,
        isLoadingContent |-> loading]
  ELSE IF r.ret.type = "array" /\ Len(r.ret.items) > 0 /\ category = currentCategory
  THEN [categoryContent |-> r.ret.items, featuredMovie |-> r.ret.items[1],
        isLoadingContent |-> FALSE]
  ELSE [categoryContent |-> content, featuredMovie |-> featured,
        isLoadingContent |-> FALSE]

\* The tail shared by loadInitialData and handleCategoryChange, given what the
\* fetch returned: movies.length throws on null (the handler stops there), is
\* undefined on an object, and is the length of an array.  category is the
\* handler's argument, in scope and unused.
contentAfter(category, r, content, featured, loading) ==
  IF r.raised \/ r.ret.type = "null"
  THEN [categoryContent |-> content, featuredMovie |-> featured,
        isLoadingContent |-> loading]
  ELSE IF r.ret.type = "array" /\ Len(r.ret.items) > 0
  THEN [categoryContent |-> r.ret.items, featuredMovie |-> r.ret.items[1],
        isLoadingContent |-> FALSE]
  ELSE [categoryContent |-> content, featuredMovie |-> featured,
        isLoadingContent |-> FALSE]

\* handleSearch after its await
searchAfter(r, results, searching) ==
  IF r.raised
  THEN [searchResults |-> results, isSearching |-> searching]
  ELSE [searchResults |-> r.ret, isSearching |-> FALSE]

\* handleChatSubmit after its await
chatAfter(r, messages, thinking) ==
  IF r.raised
  THEN [chatMessages |-> messages, isThinking |-> thinking]
  ELSE [chatMessages |-> Append(messages, [role |-> "model", text |-> r.reply]),
        isThinking |-> FALSE]

\* the history record of a fetch's call
CallEvent(caller, key, category, query, f) ==
  [NoEvent EXCEPT !.op = "call", !.caller = caller, !.key = key,
     !.query = query, !.category = category,
     !.had = HadEntry(storage, key),
     !.age = IF HadEntry(storage, key) THEN now - EntryOf(storage, key).timestamp ELSE 0,
     !.stored = IF HadEntry(storage, key) THEN EntryOf(storage, key).data ELSE Null,
     !.priorTs = IF HadEntry(storage, key) THEN EntryOf(storage, key).timestamp ELSE -1,
     !.hit = f.hit, !.invoked = f.invoked, !.done = f.done, !.raised = f.raised,
     !.ret = f.ret,
     !.corrupt = HasItem(storage, key) /\ ~HadEntry(storage, key),
     !.prompt = IF f.invoked THEN PromptOf(key, category, query) ELSE <<>>]

\* pending holds each backend call once, also when two are alike: a call is
\* numbered with the least number no pending call like it has
Numbered(r) ==
  [r EXCEPT !.id = CHOOSE i \in 0..Cardinality(pending) :
                     /\ [r EXCEPT !.id = i] \notin pending
                     /\ \A j \in 0..(i - 1) : [r EXCEPT !.id = j] \in pending]

Request(caller, key, category, query) ==
  Numbered([NoRequest EXCEPT !.caller = caller, !.key = key,
     !.category = category, !.query = query,
     !.prompt = PromptOf(key, category, query),
     !.priorTs = IF HadEntry(storage, key) THEN EntryOf(storage, key).timestamp ELSE -1,
     !.stale = HadEntry(storage, key) /\ now - EntryOf(storage, key).timestamp > CACHE_TTL])

\* ------------------------------------------------------ images and ratings
\* poster_path, backdrop_path: string | null; a string is its characters
NullPath == [type |-> "null", chars |-> <<>>]
Str(chars) == [type |-> "string", chars |-> chars]

Paths ==
  {NullPath, Str(<<>>), Str(<<"/", "a">>), Str(<<"a">>),
   Str(<<"h", "t", "t", "p", ":", "/", "/", "x">>),
   Str(<<"h", "t", "t", "p", "s", ":", "/", "/", "x">>),
   Str(<<"h", "t", "t", "p", "x">>)}

\* vote_average, in hundredths: -0.25, 0, 0.05, 8.7, 8.74, 8.75, 12.35
Votes == {-25, 0, 5, 870, 874, 875, 1235}

\* a value in a condition: null and the empty string are falsy
TruthyPath(p) == p.type = "string" /\ p.chars # <<>>

\* String.prototype.startsWith
startsWith(chars, prefix) ==
  Len(chars) >= Len(prefix) /\ SubSeq(chars, 1, Len(prefix)) = prefix

\* the movie of a card, a hero or a history row; none before the mount
NoViewMovie ==
  [id |-> 0, poster_path |-> NullPath, backdrop_path |-> NullPath, vote_average |-> 0]

CardMovies ==
  [id : 1..MaxMovieId, poster_path : Paths, backdrop_path : {NullPath},
   vote_average : Votes]

HeroMovies ==
  [id : 1..MaxMovieId, poster_path : {NullPath}, backdrop_path : Paths,
   vote_average : {0}]

HistoryMovies ==
  [id : 1..MaxMovieId, poster_path : Paths, backdrop_path : {NullPath},
   vote_average : {0}]

\* `https://picsum.photos/seed/${movie.id}/300/450`
PosterPlaceholder(movie) ==
  <<"https://picsum.photos/seed/", ToString(movie.id), "/300/450">>

\* `https://picsum.photos/seed/${movie.id + 'backdrop'}/1920/1080`
BackdropPlaceholder(movie) ==
  <<"https://picsum.photos/seed/", ToString(movie.id), "backdrop", "/1920/1080">>

\* MovieCard's effect: the imgSrc it sets
PosterSrc(movie) ==
  IF TruthyPath(movie.poster_path) /\ startsWith(movie.poster_path.chars, <<"/">>)
  THEN <<"https://image.tmdb.org/t/p/w500">> \o movie.poster_path.chars
  ELSE IF TruthyPath(movie.poster_path)
          /\ startsWith(movie.poster_path.chars, <<"h", "t", "t", "p">>)
  THEN movie.poster_path.chars
  ELSE PosterPlaceholder(movie)

\* an error handler that clears the image
handleImageError_Blank(movie) == <<>>

\* MovieCard's handleImageError: the imgSrc it sets
handleImageError(movie) == PosterPlaceholder(movie)

\* Hero's effect: the bgSrc it sets
BackdropSrc(movie) ==
  IF TruthyPath(movie.backdrop_path) /\ startsWith(movie.backdrop_path.chars, <<"/">>)
  THEN <<"https://image.tmdb.org/t/p/original">> \o movie.backdrop_path.chars
  ELSE IF TruthyPath(movie.backdrop_path)
          /\ startsWith(movie.backdrop_path.chars, <<"h", "t", "t", "p">>)
  THEN movie.backdrop_path.chars
  ELSE BackdropPlaceholder(movie)

\* Hero's onError: the bgSrc it sets
heroOnError(movie) == BackdropPlaceholder(movie)

\* the src of a watch-history row:
\* poster_path?.startsWith('/') ? `...w200${poster_path}` : poster_path || ''
HistorySrc(movie) ==
  IF movie.poster_path.type = "string"
     /\ startsWith(movie.poster_path.chars, <<"/">>)
  THEN <<"https://image.tmdb.org/t/p/w200">> \o movie.poster_path.chars
  ELSE IF TruthyPath(movie.poster_path) THEN movie.poster_path.chars
  ELSE <<>>

\* Math.round that drops the fraction
MathRound_Truncating(h) == IF h >= 0 THEN h \div 100 ELSE -((-h) \div 100)

\* Math.round of a number given in hundredths: the nearest integer, a half
\* going up
MathRound(h) == (h + 50) \div 100

\* Math.round(movie.vote_average * 10)
MatchPercent(movie) == MathRound(movie.vote_average * 10)

\* One component at a time: each MovieCard, the Hero and each history row has
\* state of its own (imgSrc, bgSrc) that no other component reads or writes.
\* src is the component's imgSrc, bgSrc or src attribute; match is the
\* percentage a card prints.
NoView == [component |-> "none", movie |-> NoViewMovie, src |-> <<>>, match |-> 0]

Init ==
  /\ apiKey \in BOOLEAN
  /\ now = 0
  /\ ticks = 0
  /\ storage = <<>>
  /\ pending = {}
  /\ ops = 0
  /\ mounted = FALSE
  /\ currentCategory = "home"
  /\ categoryContent = <<>>
  /\ featuredMovie = NoMovie
  /\ searchResults = EmptyList
  /\ isSearching = FALSE
  /\ isLoadingContent = TRUE
  /\ chatMessages = <<[role |-> "model", text |-> GREETING]>>
  /\ isThinking = FALSE
  /\ writer = <<>>
  /\ last = NoEvent
  /\ view = NoView
  /\ favorites = <<>>

\* the mount effect: loadInitialData
LoadInitialData ==
  /\ ~mounted
  /\ mounted' = TRUE
  /\ LET f == fetchTrendingMoviesAI(storage, now, apiKey)
         ui == contentAfter("home", f, categoryContent, featuredMovie, TRUE) IN
     /\ storage' = f.st
     /\ pending' = IF f.done THEN pending
                   ELSE pending \cup {Request("init", TrendingKey, "home", <<>>)}
     /\ categoryContent' = IF f.done THEN ui.categoryContent ELSE categoryContent
     /\ featuredMovie' = IF f.done THEN ui.featuredMovie ELSE featuredMovie
     /\ isLoadingContent' = IF f.done THEN ui.isLoadingContent ELSE TRUE
     /\ last' = CallEvent("init", TrendingKey, "home", <<>>, f)
  /\ UNCHANGED <<apiKey, now, ticks, ops, currentCategory, searchResults,
                 isSearching, chatMessages, isThinking, writer, view,
                 favorites>>

HandleCategoryChange(category) ==
  /\ mounted
  /\ ops < MaxOps
  /\ ops' = ops + 1
  /\ currentCategory' = category
  /\ searchResults' = EmptyList
  /\ LET f == IF category = "home"
              THEN fetchTrendingMoviesAI(storage, now, apiKey)
              ELSE fetchCategoryContent(storage, category, now, apiKey)
         ui == contentAfter(category, f, categoryContent, featuredMovie, TRUE) IN
     /\ storage' = f.st
     /\ pending' = IF f.done THEN pending
                   ELSE pending \cup
                          {Request("category", KeyOfCategory(category), category, <<>>)}
     /\ categoryContent' = IF f.done THEN ui.categoryContent ELSE categoryContent
     /\ featuredMovie' = IF f.done THEN ui.featuredMovie ELSE featuredMovie
     /\ isLoadingContent' = IF f.done THEN ui.isLoadingContent ELSE TRUE
     /\ last' = CallEvent("category", KeyOfCategory(category), category, <<>>, f)
  /\ UNCHANGED <<apiKey, now, ticks, mounted, isSearching, chatMessages,
                 isThinking, writer, view,
                 favorites>>

HandleSearch(query) ==
  /\ mounted
  /\ ops < MaxOps
  /\ ops' = ops + 1
  /\ IF trim(query) = <<>>
     THEN /\ last' = [NoEvent EXCEPT !.op = "blank", !.caller = "search",
                                     !.query = query]
          /\ UNCHANGED <<storage, pending, searchResults, isSearching>>
     ELSE LET f == searchMoviesAI(storage, query, now, apiKey)
              ui == searchAfter(f, searchResults, TRUE) IN
          /\ storage' = f.st
          /\ pending' = IF f.done THEN pending
                        ELSE pending \cup
                               {Request("search", SearchKey(query), "home", query)}
          /\ searchResults' = IF f.done THEN ui.searchResults ELSE searchResults
          /\ isSearching' = IF f.done THEN ui.isSearching ELSE TRUE
          /\ last' = CallEvent("search", SearchKey(query), "home", query, f)
  /\ UNCHANGED <<apiKey, now, ticks, mounted, currentCategory, categoryContent,
                 featuredMovie, isLoadingContent, chatMessages, isThinking, writer, view,
                 favorites>>

HandleChatSubmit(input) ==
  /\ mounted
  /\ ops < MaxOps
  /\ ops' = ops + 1
  /\ IF trim(input) = <<>>
     THEN /\ last' = [NoEvent EXCEPT !.op = "blank", !.caller = "chat",
                                     !.message = input]
          /\ UNCHANGED <<pending, chatMessages, isThinking>>
     ELSE LET newMsg == [role |-> "user", text |-> input]
              history == HistoryOf(chatMessages)
              c == chatStart(apiKey)
              ui == chatAfter(c, Append(chatMessages, newMsg), TRUE) IN
          /\ pending' = IF c.done THEN pending
                        ELSE pending \cup
                               {Numbered([NoRequest EXCEPT !.caller = "chat",
                                   !.history = history, !.message = newMsg.text])}
          /\ chatMessages' = IF c.done THEN ui.chatMessages
                             ELSE Append(chatMessages, newMsg)
          /\ isThinking' = IF c.done THEN ui.isThinking ELSE TRUE
          /\ last' = [NoEvent EXCEPT !.op = "call", !.caller = "chat",
                        !.invoked = c.invoked, !.done = c.done, !.raised = c.raised,
                        !.reply = c.reply, !.history = history,
                        !.message = newMsg.text]
  /\ UNCHANGED <<apiKey, now, ticks, storage, mounted, currentCategory,
                 categoryContent, featuredMovie, searchResults, isSearching,
                 isLoadingContent, writer, view,
                 favorites>>

\* the backend answers a content fetch: the fetch and its caller run on
RespondFetch(req, outcome, writeOk) ==
  /\ req \in pending
  /\ req.caller # "chat"
  /\ pending' = pending \ {req}
  /\ LET f == fetchResume(storage, req.key, outcome, now, writeOk) IN
     /\ storage' = f.st
     /\ writer' = IF f.wrote /\ req.caller = "search"
                  THEN [k \in DOMAIN writer \cup {req.key} |->
                          IF k = req.key THEN req.query ELSE writer[k]]
                  ELSE writer
     /\ IF req.caller = "search"
        THEN LET ui == searchAfter(f, searchResults, isSearching) IN
             /\ searchResults' = ui.searchResults
             /\ isSearching' = ui.isSearching
             /\ UNCHANGED <<categoryContent, featuredMovie, isLoadingContent>>
        ELSE LET ui == contentAfter(req.category, f, categoryContent, featuredMovie,
                                    isLoadingContent) IN
             /\ categoryContent' = ui.categoryContent
             /\ featuredMovie' = ui.featuredMovie
             /\ isLoadingContent' = ui.isLoadingContent
             /\ UNCHANGED <<searchResults, isSearching>>
     /\ last' = [NoEvent EXCEPT !.op = "respond", !.caller = req.caller,
                   !.key = req.key, !.query = req.query,
                   !.category = req.category, !.priorTs = req.priorTs,
                   !.stale = req.stale, !.done = TRUE, !.raised = f.raised,
                   !.ret = f.ret, !.outcome = outcome,
                   !.wrote = f.wrote, !.prompt = req.prompt]
  /\ UNCHANGED <<apiKey, now, ticks, ops, mounted, currentCategory,
                 chatMessages, isThinking, view,
                 favorites>>

\* the backend answers a chat message
RespondChat(req, outcome) ==
  /\ req \in pending
  /\ req.caller = "chat"
  /\ pending' = pending \ {req}
  /\ LET c == chatResume(outcome)
         ui == chatAfter(c, chatMessages, isThinking) IN
     /\ chatMessages' = ui.chatMessages
     /\ isThinking' = ui.isThinking
     /\ last' = [NoEvent EXCEPT !.op = "respond", !.caller = "chat",
                   !.done = TRUE, !.raised = c.raised, !.reply = c.reply,
                   !.outcome = [err |-> outcome.err, text |-> EmptyText],
                   !.history = req.history, !.message = req.message]
  /\ UNCHANGED <<apiKey, now, ticks, storage, ops, mounted, currentCategory,
                 categoryContent, featuredMovie, searchResults, isSearching,
                 isLoadingContent, writer, view,
                 favorites>>

\* time passes
TickSteps == {CACHE_TTL, CACHE_TTL + 1}

Tick(d) ==
  /\ ticks < MaxTicks
  /\ ticks' = ticks + 1
  /\ now' = now + d
  /\ last' = [NoEvent EXCEPT !.op = "tick"]
  /\ UNCHANGED <<apiKey, storage, pending, ops, mounted, currentCategory,
                 categoryContent, featuredMovie, searchResults, isSearching,
                 isLoadingContent, chatMessages, isThinking, writer, view,
                 favorites>>

Next ==
  \/ LoadInitialData
  \/ \E category \in NavCategories : HandleCategoryChange(category)
  \/ \E query \in SearchInputs : HandleSearch(query)
  \/ \E input \in ChatInputs : HandleChatSubmit(input)
  \/ \E req \in pending, outcome \in Outcomes, writeOk \in BOOLEAN :
       RespondFetch(req, outcome, writeOk)
  \/ \E req \in pending, outcome \in ChatOutcomes : RespondChat(req, outcome)
  \/ \E d \in TickSteps : Tick(d)

Spec == Init /\ [][Next]_vars

\* ------------------------------------------- the service, called directly
\* fetchCategoryContent takes any string: the five tabs, and two that are none
CategoryInputs == Categories \cup {"", "anime"}

ServiceQueries == {<<"S">>, <<"s", " ">>}

\* What an earlier session, or another script of the origin, left in
\* localStorage under a cache key: text that is not JSON, the empty text,
\* JSON that is no envelope, and an entry written at time 0.
OldEntry == JSONstringify([data |-> Arr(<<Movie(1)>>), timestamp |-> 0])

LeftItems ==
  {GarbageText, EmptyText, JSONstringify(Null), JSONstringify(EmptyList), OldEntry}

\* items of other scripts: one under a name of its own, and an envelope under
\* the name a cache key has without the prefix
ForeignKeys == {<<"theme">>, TrendingKey}

ForeignItems == [k \in ForeignKeys |-> IF k = TrendingKey THEN OldEntry ELSE GarbageText]

LeftStorages ==
  {ForeignItems} \cup
  {[k \in ForeignKeys \cup {StorageKey(CategoryKey("tv"))} |->
      IF k \in ForeignKeys THEN ForeignItems[k] ELSE item] : item \in LeftItems}

ServiceInit ==
  /\ apiKey \in BOOLEAN
  /\ now = 0
  /\ ticks = 0
  /\ storage \in LeftStorages
  /\ pending = {}
  /\ ops = 0
  /\ mounted = FALSE
  /\ currentCategory = "home"
  /\ categoryContent = <<>>
  /\ featuredMovie = NoMovie
  /\ searchResults = EmptyList
  /\ isSearching = FALSE
  /\ isLoadingContent = TRUE
  /\ chatMessages = <<[role |-> "model", text |-> GREETING]>>
  /\ isThinking = FALSE
  /\ writer = <<>>
  /\ last = NoEvent
  /\ view = NoView
  /\ favorites = <<>>

\* a fetch called by a caller that is not the page: f is the fetch up to its
\* await; the call it leaves pending remembers when it was issued
DirectCall(key, category, query, f) ==
  /\ ops < MaxOps
  /\ ops' = ops + 1
  /\ storage' = f.st
  /\ pending' = IF f.done THEN pending
                ELSE pending \cup
                       {Numbered([Request("direct", key, category, query)
                                    EXCEPT !.id = 0, !.issued = now])}
  /\ last' = CallEvent("direct", key, category, query, f)
  /\ UNCHANGED <<apiKey, now, ticks, mounted, currentCategory, categoryContent,
                 featuredMovie, searchResults, isSearching, isLoadingContent,
                 chatMessages, isThinking, writer, view,
                 favorites>>

ServiceTrending ==
  DirectCall(TrendingKey, "home", <<>>, fetchTrendingMoviesAI(storage, now, apiKey))

ServiceCategory(category) ==
  DirectCall(CategoryKey(category), category, <<>>,
             fetchCategoryContent(storage, category, now, apiKey))

ServiceSearch(query) ==
  DirectCall(SearchKey(query), "home", query,
             searchMoviesAI(storage, query, now, apiKey))

\* the backend answers a fetch that was called directly
ServiceAnswer(req, outcome, writeOk) ==
  /\ req \in pending
  /\ req.caller = "direct"
  /\ pending' = pending \ {req}
  /\ LET f == fetchResume(storage, req.key, outcome, now, writeOk) IN
     /\ storage' = f.st
     /\ last' = [NoEvent EXCEPT !.op = "respond", !.caller = "direct",
                   !.key = req.key, !.query = req.query,
                   !.category = req.category, !.priorTs = req.priorTs,
                   !.stale = req.stale, !.done = TRUE, !.raised = f.raised,
                   !.ret = f.ret, !.outcome = outcome, !.wrote = f.wrote,
                   !.prompt = req.prompt, !.issued = req.issued]
  /\ UNCHANGED <<apiKey, now, ticks, ops, mounted, currentCategory,
                 categoryContent, featuredMovie, searchResults, isSearching,
                 isLoadingContent, chatMessages, isThinking, writer, view,
                 favorites>>

ServiceNext ==
  \/ ServiceTrending
  \/ \E category \in CategoryInputs : ServiceCategory(category)
  \/ \E query \in ServiceQueries : ServiceSearch(query)
  \/ \E req \in pending, outcome \in Outcomes, writeOk \in BOOLEAN :
       ServiceAnswer(req, outcome, writeOk)
  \/ \E d \in TickSteps : Tick(d)

ServiceSpec == ServiceInit /\ [][ServiceNext]_vars

\* ---------------------------------------------------- the image components
\* a MovieCard mounts, or its movie changes: the effect on [movie] runs
RenderCard(movie) ==
  /\ view' = [component |-> "card", movie |-> movie, src |-> PosterSrc(movie),
              match |-> MatchPercent(movie)]
  /\ last' = [NoEvent EXCEPT !.op = "card"]
  /\ UNCHANGED <<apiKey, now, ticks, storage, pending, ops, mounted,
                 currentCategory, categoryContent, featuredMovie, searchResults,
                 isSearching, isLoadingContent, chatMessages, isThinking, writer,
                 favorites>>

\* the card's image fails to load
CardImageError ==
  /\ view.component = "card"
  /\ view' = [view EXCEPT !.src = handleImageError(view.movie)]
  /\ last' = [NoEvent EXCEPT !.op = "cardError"]
  /\ UNCHANGED <<apiKey, now, ticks, storage, pending, ops, mounted,
                 currentCategory, categoryContent, featuredMovie, searchResults,
                 isSearching, isLoadingContent, chatMessages, isThinking, writer,
                 favorites>>

\* the Hero gets a movie: the effect on [movie] runs
RenderHero(movie) ==
  /\ view' = [component |-> "hero", movie |-> movie, src |-> BackdropSrc(movie),
              match |-> 0]
  /\ last' = [NoEvent EXCEPT !.op = "hero"]
  /\ UNCHANGED <<apiKey, now, ticks, storage, pending, ops, mounted,
                 currentCategory, categoryContent, featuredMovie, searchResults,
                 isSearching, isLoadingContent, chatMessages, isThinking, writer,
                 favorites>>

\* the Hero's image fails to load
HeroImageError ==
  /\ view.component = "hero"
  /\ view' = [view EXCEPT !.src = heroOnError(view.movie)]
  /\ last' = [NoEvent EXCEPT !.op = "heroError"]
  /\ UNCHANGED <<apiKey, now, ticks, storage, pending, ops, mounted,
                 currentCategory, categoryContent, featuredMovie, searchResults,
                 isSearching, isLoadingContent, chatMessages, isThinking, writer,
                 favorites>>

\* the profile shows a watch-history row
RenderHistory(movie) ==
  /\ view' = [component |-> "history", movie |-> movie, src |-> HistorySrc(movie),
              match |-> 0]
  /\ last' = [NoEvent EXCEPT !.op = "history"]
  /\ UNCHANGED <<apiKey, now, ticks, storage, pending, ops, mounted,
                 currentCategory, categoryContent, featuredMovie, searchResults,
                 isSearching, isLoadingContent, chatMessages, isThinking, writer,
                 favorites>>

ViewNext ==
  \/ \E movie \in CardMovies : RenderCard(movie)
  \/ CardImageError
  \/ \E movie \in HeroMovies : RenderHero(movie)
  \/ HeroImageError
  \/ \E movie \in HistoryMovies : RenderHistory(movie)

ViewSpec == Init /\ [][ViewNext]_vars

\* ------------------------------------------------------------------ My List
\* the heart on a card is clicked
ToggleFavorite(movie) ==
  /\ favorites' = toggleFavorite(favorites, movie)
  /\ last' = [NoEvent EXCEPT !.op = "toggle", !.movie = movie, !.before = favorites]
  /\ UNCHANGED <<apiKey, now, ticks, storage, pending, ops, mounted,
                 currentCategory, categoryContent, featuredMovie, searchResults,
                 isSearching, isLoadingContent, chatMessages, isThinking, writer,
                 view>>

FavoritesNext == \E movie \in FavoriteMovies : ToggleFavorite(movie)

FavoritesSpec == Init /\ [][FavoritesNext]_vars

\* ------------------------------------------------------------------ claims
FetchCallers == {"init", "category", "search"}

IsFetchCall == last.op = "call" /\ last.caller \in FetchCallers
IsFetchAnswer == last.op = "respond" /\ last.caller \in FetchCallers

\* a backend call that errored, or an answer that is not an array of items
NonConforming(outcome) ==
  \/ outcome.err
  \/ outcome.text.kind \in {"empty", "garbage"}
  \/ outcome.text.kind = "json" /\ ~IsList(outcome.text.value)

\* an answer whose text JSON.parse accepts (an empty text is read as "[]")
Parses(outcome) ==
  ~outcome.err /\ outcome.text.kind \in {"empty", "json"}

ParsedValue(outcome) ==
  IF outcome.text.kind = "empty" THEN EmptyList ELSE outcome.text.value

\* C1: a fetch issued while the stored entry for its key is no older than the
\* TTL returns the stored payload and does not invoke the backend, whatever
\* payload an earlier successful fetch stored.
C1_CacheHit ==
  (IsFetchCall /\ last.had /\ last.age <= CACHE_TTL)
    => (last.hit /\ last.done /\ ~last.invoked /\ last.ret = last.stored)

\* C2: a backend error, or an answer that is unparseable, empty or not an
\* array, makes the fetch return the empty list and leaves the cache without
\* an entry for the key.
C2_FailureNotCached ==
  (IsFetchAnswer /\ NonConforming(last.outcome))
    => (last.ret = EmptyList /\ ~HasItem(storage, last.key))

\* C3 as claimed: a fetch issued on an entry older than the TTL invokes the
\* backend once, and when it completes the cache holds the new answer with a
\* timestamp newer than the prior entry's.
C3_ExpiredRefetch ==
  /\ (IsFetchCall /\ last.had /\ last.age > CACHE_TTL) => last.invoked
  /\ (IsFetchAnswer /\ last.stale)
       => /\ HadEntry(storage, last.key)
          /\ EntryOf(storage, last.key).data = ParsedValue(last.outcome)
          /\ EntryOf(storage, last.key).timestamp > last.priorTs

\* C3 as amended: a fetch issued on an entry older than the TTL misses and
\* removes the entry, and invokes the backend, once, exactly when the API key
\* is set; when the answer parses and the storage write succeeds, the cache
\* holds the parsed answer stamped with the time of completion, which is newer
\* than the prior entry's timestamp.
C3_ExpiredRefetchAmended ==
  /\ (IsFetchCall /\ last.had /\ last.age > CACHE_TTL)
       => /\ ~last.hit
          /\ ~HasItem(storage, last.key)
          /\ last.invoked <=> apiKey
          /\ last.invoked =>
               Cardinality({r \in pending : r.key = last.key /\ r.stale
                                              /\ r.priorTs = last.priorTs}) = 1
  /\ (IsFetchAnswer /\ last.stale /\ Parses(last.outcome) /\ last.wrote)
       => /\ HadEntry(storage, last.key)
          /\ EntryOf(storage, last.key).data = ParsedValue(last.outcome)
          /\ EntryOf(storage, last.key).timestamp = now
          /\ EntryOf(storage, last.key).timestamp > last.priorTs

\* an expired entry was refetched and the new answer, unlike the old, stored
C3_Witness ==
  /\ IsFetchAnswer /\ last.stale /\ last.wrote /\ last.priorTs >= 0
  /\ HadEntry(storage, last.key)
  /\ EntryOf(storage, last.key).data = Arr(<<Movie(1)>>)
  /\ EntryOf(storage, last.key).timestamp > CACHE_TTL

\* C4: a content fetch never raises and always returns a list.
C4_FetchReturnsList ==
  (last.caller \in FetchCallers /\ last.op \in {"call", "respond"} /\ last.done)
    => (~last.raised /\ IsList(last.ret))

\* C5 as claimed: without an API key, a fetch that misses the cache raises to
\* its caller.
C5_MissingKeyRaises ==
  (IsFetchCall /\ ~apiKey /\ ~last.hit) => last.raised

\* C5 as amended: without an API key, a fetch that misses the cache does not
\* raise: the error getAI throws is caught by the fetch, which returns the
\* empty list at once, invokes the backend not at all and leaves nothing
\* pending to retry.
C5_MissingKeyAbsorbed ==
  (IsFetchCall /\ ~apiKey /\ ~last.hit)
    => /\ ~last.raised
       /\ last.done
       /\ last.ret = EmptyList
       /\ ~last.invoked
       /\ pending = {}

\* a search made without an API key came back empty
C5_Witness ==
  /\ IsFetchCall /\ ~apiKey /\ ~last.hit
  /\ last.caller = "search"
  /\ searchResults = EmptyList /\ ~isSearching

\* C6: category answers are not fenced: every non-empty answer to the initial
\* load or to a category change becomes categoryContent, with its first item
\* as featuredMovie, whichever category is current when it arrives; so a slow
\* answer for an earlier category overwrites the answer for the current one.
C6_Unfenced ==
  (last.op = "respond" /\ last.caller \in {"init", "category"}
     /\ IsList(last.ret) /\ Len(last.ret.items) > 0)
    => /\ categoryContent = last.ret.items
       /\ featuredMovie = last.ret.items[1]

\* the user chose tv, then movies; the answer for movies arrived and was
\* stored, then the answer for tv arrived and replaced it on the page
C6_StaleOverwrite ==
  /\ last.op = "respond" /\ last.caller = "category" /\ last.category = "tv"
  /\ currentCategory = "movies"
  /\ ops = 2
  /\ pending = {}
  /\ HadEntry(storage, CategoryKey("tv"))
  /\ HadEntry(storage, CategoryKey("movies"))
  /\ Len(EntryOf(storage, CategoryKey("movies")).data.items) > 0
  /\ categoryContent = EntryOf(storage, CategoryKey("tv")).data.items
  /\ categoryContent # EntryOf(storage, CategoryKey("movies")).data.items

\* two queries are alike up to letter case and leading and trailing spaces
SameLetter(a, b) == a = b \/ {a, b} = {"S", "s"}

IsPadding(s, from, to) == \A k \in from..to : s[k] = " "

Cores(q) ==
  {SubSeq(q, i, j) : <<i, j>> \in
     {<<i, j>> \in (1..(Len(q) + 1)) \X (0..Len(q)) :
        i <= j + 1 /\ IsPadding(q, 1, i - 1) /\ IsPadding(q, j + 1, Len(q))}}

AlikeQueries(q1, q2) ==
  \E c1 \in Cores(q1), c2 \in Cores(q2) :
    Len(c1) = Len(c2) /\ \A k \in 1..Len(c1) : SameLetter(c1[k], c2[k])

\* the normalised query a cache key holds
QueryOf(key) == key[2]

\* normalisation is idempotent
NormalizeIdempotent ==
  \A q \in Queries : SearchKey(QueryOf(SearchKey(q))) = SearchKey(q)

\* queries alike up to case and outer spaces have one cache key
AlikeQueriesOneKey ==
  \A q1, q2 \in Queries : AlikeQueries(q1, q2) => SearchKey(q1) = SearchKey(q2)

\* C7, the keys alone: normalisation is idempotent, queries alike up to case
\* and outer spaces have one cache key, and a search looks up the key of its
\* own query.
C7_SameKey ==
  /\ NormalizeIdempotent
  /\ AlikeQueriesOneKey
  /\ (last.op = "call" /\ last.caller = "search")
       => \A q \in SearchInputs :
            AlikeQueries(q, last.query) => last.key = SearchKey(q)

\* C7: normalisation is idempotent, queries alike up to case and outer spaces
\* have one cache key, and a search within the TTL of the entry that a search
\* with an alike query wrote is served from that entry.
C7_AlikeQueriesShareEntry ==
  /\ NormalizeIdempotent
  /\ AlikeQueriesOneKey
  /\ \A k \in DOMAIN writer :
       (/\ last.op = "call" /\ last.caller = "search"
        /\ writer[k] # last.query /\ AlikeQueries(writer[k], last.query)
        /\ HadEntry(storage, k) /\ now - EntryOf(storage, k).timestamp <= CACHE_TTL)
         => (last.hit /\ ~last.invoked /\ last.ret = EntryOf(storage, k).data)

\* the turns a history holds
TurnsOf(history) ==
  [i \in 1..Len(history) |->
     [role |-> history[i].role, text |-> history[i].parts[1].text]]

ChatRequests == {r \in pending : r.caller = "chat"}

\* C8: the history handed to the backend with a chat message is the turns
\* accumulated before it, in order and with their roles, and the message is the
\* user turn that follows them; also when an earlier reply is still pending.
C8_ChatHistory ==
  \A r \in ChatRequests :
    /\ Len(chatMessages) > Len(r.history)
    /\ TurnsOf(r.history) = SubSeq(chatMessages, 1, Len(r.history))
    /\ chatMessages[Len(r.history) + 1] = [role |-> "user", text |-> r.message]

\* a message was submitted while the reply to the one before it was pending
C8_Witness ==
  /\ Cardinality(ChatRequests) = 2
  /\ \E r \in ChatRequests :
       /\ Len(r.history) = 2
       /\ r.history[1].role = "model"
       /\ r.history[2].role = "user"

\* the chat call failed: no client, or the backend call rejected
ChatFailed ==
  /\ last.caller = "chat"
  /\ \/ last.op = "call" /\ ~apiKey
     \/ last.op = "respond" /\ last.outcome.err

\* C9: chatWithMovieBot never raises; when the client cannot be built or the
\* message cannot be sent it returns the fixed apology, which the page appends
\* as a model turn.
C9_ChatNeverRaises ==
  /\ (last.caller = "chat" /\ last.op \in {"call", "respond"}) => ~last.raised
  /\ ChatFailed
       => /\ last.done
          /\ last.reply = APOLOGY
          /\ chatMessages[Len(chatMessages)] = [role |-> "model", text |-> APOLOGY]
          /\ ~isThinking

\* the backend rejected a chat message and the apology is the last turn
C9_Witness ==
  /\ ChatFailed /\ last.op = "respond"
  /\ Len(chatMessages) = 3
  /\ chatMessages[3].text = APOLOGY

\* a step of a chat call: its start or its answer
ChatStep == chatMessages' # chatMessages

\* C10 as claimed: every chat call invokes the backend, and no step of a chat
\* call changes the cache store.
C10_ChatAlwaysInvokes ==
  [][ChatStep => /\ storage' = storage
                 /\ last'.op = "call" => last'.invoked]_vars

\* C10 as amended: a chat call invokes the backend whenever the API key is set
\* (and only then), however often the same message was sent before, and no
\* step of a chat call changes the cache store.
C10_ChatUncached ==
  [][ChatStep => /\ storage' = storage
                 /\ last'.op = "call" =>
                      /\ last'.invoked <=> apiKey
                      /\ last'.invoked =>
                           \E r \in pending' \ pending :
                             r.caller = "chat" /\ r.message = last'.message]_vars

\* the same message was sent twice while the cache held an entry, and the
\* second was handed to the backend too
C10_Witness ==
  /\ last.op = "call" /\ last.caller = "chat" /\ last.invoked
  /\ Len(chatMessages) >= 3
  /\ chatMessages[2].text = last.message
  /\ DOMAIN storage # {}

\* ---------------------------------------------------------------- C11
RecognizedCategories == {"tv", "movies", "new", "web"}

DefaultPrompt == <<"Generate a list of 10 trending movies.">>

IsCategoryKey(key) == key # <<>> /\ key[1] = "category_"

\* the four recognized categories have four prompts, none of them the default
PromptsDistinct ==
  \A c1, c2 \in RecognizedCategories :
     /\ CategoryPrompt(c1) # DefaultPrompt
     /\ c1 # c2 => CategoryPrompt(c1) # CategoryPrompt(c2)

\* C11: fetchCategoryContent with a category other than 'tv', 'movies', 'new'
\* and 'web' sends the default "trending movies" prompt and does not raise,
\* at its call and at its answer; each of the four recognized categories
\* sends a prompt of its own, different from the others' and the default.
C11_PromptSelection ==
  /\ PromptsDistinct
  /\ \A r \in pending :
       r.caller = "direct" /\ IsCategoryKey(r.key) =>
         /\ r.key = CategoryKey(r.category)
         /\ r.category \notin RecognizedCategories => r.prompt = DefaultPrompt
         /\ r.category \in RecognizedCategories => r.prompt # DefaultPrompt
         /\ \A q \in pending :
              /\ q.caller = "direct" /\ IsCategoryKey(q.key)
              /\ {q.category, r.category} \subseteq RecognizedCategories
              /\ q.category # r.category
              => q.prompt # r.prompt
  /\ last.caller = "direct" /\ IsCategoryKey(last.key) => ~last.raised

\* the backend was asked for the unknown category 'anime' with the default
\* prompt, and has answered; nothing was raised
C11_Witness ==
  /\ last.op = "respond" /\ last.caller = "direct"
  /\ last.key = CategoryKey("anime")
  /\ last.prompt = DefaultPrompt
  /\ ~last.raised

\* ---------------------------------------------------------------- C12
IsDirectCall == last.op = "call" /\ last.caller = "direct"

\* C12: a fetch that finds under its key an item that does not parse as an
\* envelope, or an entry older than the TTL, misses, and the read has removed
\* the item from the storage.
C12_UnreadableRemoved ==
  IsDirectCall /\ (last.corrupt \/ (last.had /\ last.age > CACHE_TTL)) =>
    /\ ~last.hit
    /\ ~HasItem(storage, last.key)

\* ---------------------------------------------------------------- C13
IsAbsoluteUrl(chars) ==
  \/ startsWith(chars, <<"h", "t", "t", "p", ":", "/", "/">>)
  \/ startsWith(chars, <<"h", "t", "t", "p", "s", ":", "/", "/">>)

\* the image reference the claim gives a poster_path, on an image host base
ClaimedPosterSrc(base, movie) ==
  IF movie.poster_path.type = "string" /\ startsWith(movie.poster_path.chars, <<"/">>)
  THEN <<base>> \o movie.poster_path.chars
  ELSE IF movie.poster_path.type = "string" /\ IsAbsoluteUrl(movie.poster_path.chars)
  THEN movie.poster_path.chars
  ELSE PosterPlaceholder(movie)

\* C13: wherever the page resolves a poster_path, in a MovieCard and in a
\* watch-history row, a path that begins with '/' becomes the image host base
\* followed by the path, an absolute http(s) URL stays as it is, and every
\* other value (null, the empty string, anything else) becomes the placeholder
\* seeded by the item's id.
C13_PosterResolution ==
  /\ last.op = "card" =>
       view.src = ClaimedPosterSrc("https://image.tmdb.org/t/p/w500", view.movie)
  /\ last.op = "history" =>
       view.src = ClaimedPosterSrc("https://image.tmdb.org/t/p/w200", view.movie)

\* ---------------------------------------------------------------- C14
\* the item with its path taken away
WithoutPoster(movie) == [movie EXCEPT !.poster_path = NullPath]
WithoutBackdrop(movie) == [movie EXCEPT !.backdrop_path = NullPath]

\* C14: after a load failure, the first or a later one, a MovieCard shows
\* what its effect sets for the same item without a poster_path, and the Hero
\* what its effect sets for the same item without a backdrop_path.
C14_ErrorFallback ==
  /\ last.op = "cardError" =>
       view.component = "card" /\ view.src = PosterSrc(WithoutPoster(view.movie))
  /\ last.op = "heroError" =>
       view.component = "hero" /\ view.src = BackdropSrc(WithoutBackdrop(view.movie))

\* a card whose poster_path '/a' was resolved on the image host has failed to
\* load and shows the placeholder of its item
C14_Witness ==
  /\ last.op = "cardError"
  /\ view.movie.poster_path = Str(<<"/", "a">>)
  /\ view.src = <<"https://picsum.photos/seed/", ToString(view.movie.id), "/300/450">>
  /\ view.src # PosterSrc(view.movie)

\* ---------------------------------------------------------------- C15
InNamespace(k) == k # <<>> /\ k[1] = CACHE_PREFIX

\* the storage keys whose item a step reads as a hit, writes or removes
Touched ==
  {k \in DOMAIN storage \cup DOMAIN storage' :
     \/ k \notin DOMAIN storage
     \/ k \notin DOMAIN storage'
     \/ storage'[k] # storage[k]}

\* C15: a step of the cache layer leaves every item outside the namespace as
\* it is; the one key it writes or removes is the prefix followed by the key
\* of the fetch, and a hit returns the payload stored under that key.
C15_Namespace ==
  [][ /\ \A k \in DOMAIN storage \cup DOMAIN storage' :
           ~InNamespace(k) => k \notin Touched
      /\ \A k \in Touched :
           InNamespace(k) /\ k = <<CACHE_PREFIX>> \o last'.key
      /\ last'.op = "call" /\ last'.hit =>
           /\ <<CACHE_PREFIX>> \o last'.key \in DOMAIN storage
           /\ storage[<<CACHE_PREFIX>> \o last'.key].value.data = last'.ret
    ]_vars

\* the trending list was fetched and stored under the prefixed key, and the
\* item another script keeps under 'trending_movies' is as it was
C15_Witness ==
  /\ last.op = "respond" /\ last.caller = "direct" /\ last.wrote
  /\ last.key = TrendingKey
  /\ storage[TrendingKey] = OldEntry
  /\ storage[<<CACHE_PREFIX>> \o TrendingKey].value.data = last.ret
  /\ storage[<<CACHE_PREFIX>> \o TrendingKey] # OldEntry

\* ---------------------------------------------------------------- C16
\* p is the integer nearest to h hundredths, a half going up:
\* p - 1/2 <= h/100 < p + 1/2
IsHalfUpRound(p, h) == 100 * p - 50 <= h /\ h < 100 * p + 50

\* C16: the percentage a card prints is vote_average * 10 rounded to the
\* nearest integer, a half going up, for every vote_average, those outside
\* 0..10 included, with no clamping; 8.7 prints 87.
C16_MatchPercent ==
  view.component = "card" =>
    /\ IsHalfUpRound(view.match, view.movie.vote_average * 10)
    /\ view.movie.vote_average = 870 => view.match = 87

\* a card of an item rated 12.35, outside 0..10, prints 124: the half went
\* up and nothing was clamped
C16_Witness ==
  /\ view.component = "card"
  /\ view.movie.vote_average = 1235
  /\ view.match = 124

\* ---------------------------------------------------------------- C17
\* the storage keys a step creates or overwrites
Written ==
  {k \in DOMAIN storage' : k \notin DOMAIN storage \/ storage'[k] # storage[k]}

\* C17: an entry is created or overwritten only in the step that completes a
\* fetch for the entry's own key whose answer parsed; the entry then holds
\* what that fetch returns, stamped with the time of that step.  A fetch that
\* misses invokes the backend, also while another fetch for its key is in
\* flight, and each of them writes when it completes.
C17_WriteOnCompletion ==
  [][ /\ \A k \in Written :
           /\ last'.op = "respond"
           /\ k = StorageKey(last'.key)
           /\ \E req \in pending \ pending' : req.key = last'.key
           /\ Parses(last'.outcome)
           /\ ~last'.raised
           /\ last'.ret = ParsedValue(last'.outcome)
           /\ storage'[k] = JSONstringify([data |-> last'.ret, timestamp |-> now'])
      /\ last'.op = "call" /\ ~last'.hit /\ apiKey =>
           /\ last'.invoked
           /\ \E req \in pending' \ pending : req.key = last'.key /\ req.issued = now
    ]_vars

\* two fetches for one key were in flight; time passed; the answer to one of
\* them has been stored, stamped with the time of its arrival and not of its
\* call, while the other is still awaited
C17_Witness ==
  /\ last.op = "respond" /\ last.caller = "direct" /\ last.wrote
  /\ last.issued < now
  /\ EntryOf(storage, last.key).timestamp = now
  /\ EntryOf(storage, last.key).data = last.ret
  /\ \E req \in pending : req.key = last.key /\ req.issued = last.issued

\* ---------------------------------------------------------------- C18
\* the storage keys a step removes
Removed == DOMAIN storage \ DOMAIN storage'

\* C18: a fetch that finds an entry exactly as old as the TTL is served from
\* it without a backend call; an entry is removed only by a fetch for its own
\* key that finds it older than the TTL, and by no other step.
C18_LazyInclusiveExpiry ==
  [][ /\ last'.op = "call" /\ last'.caller \in FetchCallers
           /\ last'.had /\ last'.age = CACHE_TTL =>
             last'.hit /\ ~last'.invoked /\ last'.ret = last'.stored
      /\ \A k \in Removed :
           /\ last'.op = "call" /\ last'.caller \in FetchCallers
           /\ k = StorageKey(last'.key)
           /\ last'.had /\ last'.age > CACHE_TTL
    ]_vars

\* ---------------------------------------------------------------- C19
\* the content fetches in flight: those of the initial load and of category
\* changes
ContentRequests == {r \in pending : r.caller \in {"init", "category"}}

\* C19: isLoadingContent is true whenever a content fetch is in flight.
C19_LoadingWhilePending ==
  ContentRequests # {} => isLoadingContent

\* ---------------------------------------------------------------- C20
\* C20: when a category change has cleared searchResults and the next thing
\* to happen is the answer, a list, to a search submitted before it, the
\* search results stay empty.
C20_StaleSearchDropped ==
  [][ /\ last.op = "call" /\ last.caller = "category"
      /\ last'.op = "respond" /\ last'.caller = "search"
      /\ ~NonConforming(last'.outcome)
      => searchResults' = EmptyList
    ]_vars

\* ---------------------------------------------------------------- C21
\* a step in which a category change completes: its fetch returned at once
\* (a cache hit, no client), or the backend's answer arrived
CategoryChangeCompletes ==
  /\ last'.caller = "category"
  /\ \/ last'.op = "call" /\ last'.done
     \/ last'.op = "respond"

\* C21: a category change switches currentCategory when it is called; when
\* it completes with the empty list, categoryContent and featuredMovie stay
\* as they were; when it completes with a non-empty list, categoryContent
\* becomes that list and featuredMovie its first item.
C21_EmptyLeavesContent ==
  [][ /\ last'.op = "call" /\ last'.caller = "category" =>
           currentCategory' = last'.category
      /\ CategoryChangeCompletes /\ last'.ret = EmptyList =>
           /\ categoryContent' = categoryContent
           /\ featuredMovie' = featuredMovie
      /\ CategoryChangeCompletes /\ IsList(last'.ret) /\ last'.ret # EmptyList =>
           /\ categoryContent' = last'.ret.items
           /\ featuredMovie' = Head(last'.ret.items)
    ]_vars

\* the trending list is on the page; the user chose tv, the fetch for tv
\* failed and nothing is in flight: the page shows tv as the current
\* category over the trending list, and no list for tv was ever stored
C21_Witness ==
  /\ last.op = "respond" /\ last.caller = "category" /\ last.category = "tv"
  /\ last.ret = EmptyList /\ last.outcome.err
  /\ pending = {}
  /\ currentCategory = "tv"
  /\ ~HasItem(storage, CategoryKey("tv"))
  /\ HadEntry(storage, TrendingKey)
  /\ categoryContent # <<>>
  /\ categoryContent = EntryOf(storage, TrendingKey).data.items
  /\ featuredMovie = Head(categoryContent)

\* ---------------------------------------------------------------- C22
\* the fetches in flight
FetchRequests == {r \in pending : r.caller \in FetchCallers}

\* C22: once the page has mounted and every fetch has been answered, no
\* loading flag is true: every initial load and category change has set
\* isLoadingContent to false, and every search isSearching.
C22_NoFlagStuck ==
  mounted /\ FetchRequests = {} => ~isLoadingContent /\ ~isSearching

\* ---------------------------------------------------------------- C23
NoTwoWithOneId(list) ==
  \A i, j \in 1..Len(list) : list[i].id = list[j].id => i = j

IdsOf(list) == {list[i].id : i \in 1..Len(list)}

\* a step that toggles an item
Toggles == last'.op = "toggle"

\* a step that toggles the item the step before it toggled
TogglesAgain == last.op = "toggle" /\ Toggles /\ last'.movie = last.movie

\* one toggle: an item whose id is absent goes to the end, an item whose id
\* is present takes the item of that id out, the others stay in their order
OneToggle ==
  Toggles =>
    /\ last'.movie.id \notin IdsOf(favorites) =>
         favorites' = Append(favorites, last'.movie)
    /\ last'.movie.id \in IdsOf(favorites) =>
         /\ last'.movie.id \notin IdsOf(favorites')
         /\ favorites' = SelectSeq(favorites, LAMBDA m : m.id # last'.movie.id)

\* C23 as claimed: favorites never holds two items of one id; a toggle
\* appends an item whose id is absent and removes one whose id is present;
\* toggling one item twice in a row gives back the list before the two.
C23_ToggleInvolution ==
  [][ /\ NoTwoWithOneId(favorites')
      /\ OneToggle
      /\ TogglesAgain => favorites' = last.before
    ]_vars

\* C23 as amended: favorites never holds two items of one id; a toggle
\* appends an item whose id is absent and removes one whose id is present;
\* toggling one item twice in a row gives back the list before the two when
\* the id was absent from it, and otherwise that list without the item of
\* that id and with the toggled item at the end: the same ids, the list
\* itself only when the toggled item was its last.
C23_ToggleTwice ==
  [][ /\ NoTwoWithOneId(favorites')
      /\ OneToggle
      /\ TogglesAgain =>
           /\ IdsOf(favorites') = IdsOf(last.before)
           /\ last.movie.id \notin IdsOf(last.before) => favorites' = last.before
           /\ last.movie.id \in IdsOf(last.before) =>
                favorites' =
                  Append(SelectSeq(last.before, LAMBDA m : m.id # last.movie.id),
                         last.movie)
           /\ favorites' = last.before <=>
                \/ last.movie.id \notin IdsOf(last.before)
                \/ last.before[Len(last.before)] = last.movie
    ]_vars

\* the first of two items on the list was toggled twice and is now the last
C23_Witness ==
  /\ last.op = "toggle"
  /\ Len(favorites) = 2
  /\ favorites[2] = last.movie
  /\ last.before = <<favorites[1]>>

====
